---------------------------- MODULE Spec2Model ----------------------------
(***************************************************************************)
(* Model of src/src/workload_type/workload_builder.rs: the JobBuilder and  *)
(* ServiceBuilder of the workload instantiation layer.                     *)
(*                                                                         *)
(* A driver runs one pipeline at a time: it constructs a builder, calls    *)
(* its setters any number of times, and then either finalizes it into a    *)
(* resource value (to_job / to_service) or submits it (do_request).  Every *)
(* method takes `self` by value, so finalizing or submitting consumes the  *)
(* builder.                                                                *)
(*                                                                         *)
(* Rust's Option<T> is a sequence of length 0 or 1: None is << >> and      *)
(* Some(x) is <<x>>.  Result<T, E> is a record [tag, val, err].            *)
(***************************************************************************)
EXTENDS Integers, Sequences, FiniteSets, TLC

\* ------------------------------------------------------------ bounds
\* How many pipelines (builders constructed) one behaviour runs.
MaxPipelines == 2
\* Longest ownership-reference list a caller passes.
MaxOwners == 2

\* ------------------------------------------------------------ values
None == << >>
Some(x) == <<x>>

Ok(v) == [tag |-> "Ok", val |-> v, err |-> ""]
Err(e) == [tag |-> "Err", val |-> None, err |-> e]

InstanceNames == {"web-1", "batch-1"}
Namespaces == {"default", "prod"}
RestartPolicies == {"Never", "OnFailure"}
\* i32 arguments of parallelism(): negative, zero and positive.
ParallelismValues == {-1, 0, 2}

LabelKeys == {"app", "tier"}
LabelValues == {"web", "db"}
\* BTreeMap<String, String>: a function from a finite set of keys.
LabelMaps == UNION {[K -> LabelValues] : K \in SUBSET LabelKeys}
EmptyLabels == [k \in {} |-> "web"]

OwnerReferences == {"owner-a", "owner-b"}
OwnerLists == UNION {[1..n -> OwnerReferences] : n \in 0..MaxOwners}
\* Option<Vec<OwnerReference>>
OwnerArgs == {None} \cup {Some(o) : o \in OwnerLists}

\* The declared ports a component may have.
Ports == {[container_port |-> 8080, protocol |-> "TCP", name |-> "http"],
          [container_port |-> 53, protocol |-> "UDP", name |-> "dns"]}
\* Component: the component's own name, and its declared listening port.
Components == {[name |-> "worker", port |-> None]}
              \cup {[name |-> "server", port |-> Some(p)] : p \in Ports}

\* ------------------------------------------------------------ Component
\* Component::listening_port: the optional declared listening port.
listening_port(component) == component.port

\* Port::to_service_port: the service-port descriptor of a declared port.
to_service_port(port) ==
    [port |-> port.container_port,
     target_port |-> Some(port.container_port),
     protocol |-> Some(port.protocol),
     name |-> Some(port.name)]

\* Component::to_pod_spec_with_policy: the component rendered under a
\* restart policy.
to_pod_spec_with_policy(component, policy) ==
    [containers |-> component.name, restart_policy |-> Some(policy)]

\* ------------------------------------------------------------ resources
\* meta::ObjectMeta { name, labels, owner_references, ..Default::default() }
ObjectMeta(name, labels, owner_references) ==
    [name |-> Some(name), labels |-> Some(labels),
     owner_references |-> owner_references]

\* ------------------------------------------------------------ JobBuilder
BackoffLimit == 4

JobBuilder_new(instance_name, component) ==
    [name |-> instance_name,
     component |-> component,
     labels |-> EmptyLabels,
     restart_policy |-> "Never",
     owner_ref |-> None,
     parallelism |-> None]

\* Mutation of JobBuilder_labels: the new labels are merged into the old.
JobBuilder_labels_merge(self, labels) ==
    [self EXCEPT !.labels =
        [k \in DOMAIN labels \cup DOMAIN self.labels |->
            IF k \in DOMAIN labels THEN labels[k] ELSE self.labels[k]]]

JobBuilder_labels(self, labels) == [self EXCEPT !.labels = labels]

JobBuilder_restart_policy(self, policy) == [self EXCEPT !.restart_policy = policy]

JobBuilder_owner_ref(self, owner) == [self EXCEPT !.owner_ref = owner]

\* Mutation of JobBuilder_parallelism: a negative count is ignored.
JobBuilder_parallelism_checked(self, count) ==
    IF count < 0 THEN self ELSE [self EXCEPT !.parallelism = Some(count)]

JobBuilder_parallelism(self, count) == [self EXCEPT !.parallelism = Some(count)]

\* batchapi::Job with the fields to_job sets.
Job(metadata, backoff_limit, parallelism, template_metadata, pod_spec) ==
    [metadata |-> Some(metadata),
     spec |-> Some([backoff_limit |-> backoff_limit,
                    parallelism |-> parallelism,
                    template |-> [metadata |-> Some(template_metadata),
                                  spec |-> Some(pod_spec)]])]

\* Mutation of to_job: the pod template carries no ownership references.
to_job_owner_top_only(self) ==
    Job(ObjectMeta(self.name, self.labels, self.owner_ref),
        Some(BackoffLimit),
        self.parallelism,
        ObjectMeta(self.name, self.labels, None),
        to_pod_spec_with_policy(self.component, self.restart_policy))

\* Mutation of to_job: the pod template is named after the component.
to_job_template_component_name(self) ==
    Job(ObjectMeta(self.name, self.labels, self.owner_ref),
        Some(BackoffLimit),
        self.parallelism,
        ObjectMeta(self.component.name, self.labels, self.owner_ref),
        to_pod_spec_with_policy(self.component, self.restart_policy))

\* Mutation of to_job: the backoff limit is left to the control plane.
to_job_default_backoff(self) ==
    Job(ObjectMeta(self.name, self.labels, self.owner_ref),
        None,
        self.parallelism,
        ObjectMeta(self.name, self.labels, self.owner_ref),
        to_pod_spec_with_policy(self.component, self.restart_policy))

to_job(self) ==
    Job(ObjectMeta(self.name, self.labels, self.owner_ref),
        Some(BackoffLimit),
        self.parallelism,
        ObjectMeta(self.name, self.labels, self.owner_ref),
        to_pod_spec_with_policy(self.component, self.restart_policy))

\* ------------------------------------------------------------ ServiceBuilder
ServiceBuilder_new(instance_name, component) ==
    [name |-> instance_name,
     component |-> component,
     labels |-> EmptyLabels,
     owner_ref |-> None]

ServiceBuilder_labels(self, labels) == [self EXCEPT !.labels = labels]

ServiceBuilder_owner_reference(self, owner_ref) == [self EXCEPT !.owner_ref = owner_ref]

\* api::Service with the fields to_service sets.
Service(metadata, selector, ports) ==
    [metadata |-> Some(metadata),
     spec |-> Some([selector |-> Some(selector), ports |-> Some(ports)])]

\* Mutation of to_service: a component without a port gets a Service
\* without ports.
to_service_always(self) ==
    LET port == listening_port(self.component) IN
    Some(Service(ObjectMeta(self.name, self.labels, self.owner_ref),
                 self.labels,
                 IF port = None THEN << >> ELSE <<to_service_port(port[1])>>))

\* Mutation of to_service: the selector also selects on the instance name.
to_service_selector_named(self) ==
    LET port == listening_port(self.component) IN
    IF port = None
    THEN None
    ELSE Some(Service(ObjectMeta(self.name, self.labels, self.owner_ref),
                      [k \in DOMAIN self.labels \cup {"name"} |->
                          IF k = "name" THEN self.name ELSE self.labels[k]],
                      <<to_service_port(port[1])>>))

\* Option::and_then over listening_port(): None stays None.
to_service(self) ==
    LET port == listening_port(self.component) IN
    IF port = None
    THEN None
    ELSE Some(Service(ObjectMeta(self.name, self.labels, self.owner_ref),
                      self.labels,
                      <<to_service_port(port[1])>>))

\* ------------------------------------------------------------ submission
\* What the calls a submit makes outside this file answer, one record per
\* invocation:
\*   encode_ok     serde_json encodes the resource (to_vec, to_string_pretty)
\*   build_ok      the create request can be constructed
\*   accepts       the control plane admits the request (authorization,
\*                 validation, transport), apart from its duplicate check
\*   info_enabled  the logger emits records of level info
Envs == [encode_ok : BOOLEAN, build_ok : BOOLEAN,
         accepts : BOOLEAN, info_enabled : BOOLEAN]

Panic(why) == [tag |-> "Panic", val |-> None, err |-> why]

\* serde_json::to_vec / to_string_pretty of a resource.  The encoded bytes
\* are modelled by what the control plane reads back from them to identify
\* the resource: its metadata name.
serde_json_encode(resource, encode_ok) ==
    IF encode_ok
    THEN Ok([name |-> resource.metadata[1].name[1]])
    ELSE Err("Serialization")

\* RawApi::create: builds the POST request for a resource collection within
\* a namespace; issues nothing.
RawApi_create(resource, namespace, data, build_ok) ==
    IF build_ok
    THEN Ok([method |-> "POST", resource |-> resource,
             namespace |-> namespace, body |-> data])
    ELSE Err("RequestBuild")

\* The identity under which the control plane stores a created resource.
ResourceId(req) ==
    [resource |-> req.resource, namespace |-> req.namespace, name |-> req.body.name]

\* APIClient::request: sends one request to the control plane, which admits
\* it or not, rejects a name that already exists in the namespace, and
\* otherwise stores the resource.
client_request(cluster, req, accepts) ==
    IF ~accepts
    THEN [res |-> Err("Rejected"), cluster |-> cluster]
    ELSE IF ResourceId(req) \in cluster
    THEN [res |-> Err("AlreadyExists"), cluster |-> cluster]
    ELSE [res |-> Ok(ResourceId(req)), cluster |-> cluster \cup {ResourceId(req)}]

\* What one invocation of do_request did: the value it returned, the
\* cluster it left, the requests it sent and the answers they got.
Outcome(result, cluster, sent, answers) ==
    [result |-> result, cluster |-> cluster, sent |-> sent, answers |-> answers]

\* Mutation of JobBuilder_do_request: the control plane's answer is dropped.
JobBuilder_do_request_swallow(self, cluster, namespace, env) ==
    LET job == to_job(self)
        data == serde_json_encode(job, env.encode_ok)
    IN  IF data.tag # "Ok"
        THEN Outcome(Err(data.err), cluster, << >>, << >>)
        ELSE
        LET req == RawApi_create("jobs", namespace, data.val, env.build_ok)
        IN  IF req.tag # "Ok"
            THEN Outcome(Err(req.err), cluster, << >>, << >>)
            ELSE
            LET resp == client_request(cluster, req.val, env.accepts)
            IN  Outcome(Ok(None), resp.cluster, <<req.val>>, <<resp.res>>)

JobBuilder_do_request(self, cluster, namespace, env) ==
    LET job == to_job(self)
        data == serde_json_encode(job, env.encode_ok)
    IN  IF data.tag # "Ok"
        THEN Outcome(Err(data.err), cluster, << >>, << >>)
        ELSE
        LET req == RawApi_create("jobs", namespace, data.val, env.build_ok)
        IN  IF req.tag # "Ok"
            THEN Outcome(Err(req.err), cluster, << >>, << >>)
            ELSE
            LET resp == client_request(cluster, req.val, env.accepts)
            IN  IF resp.res.tag # "Ok"
                THEN Outcome(Err(resp.res.err), resp.cluster, <<req.val>>, <<resp.res>>)
                ELSE Outcome(Ok(None), resp.cluster, <<req.val>>, <<resp.res>>)

\* Api::v1Service(client).within(namespace).create(&pp, data): builds the
\* create request for the namespace's services and sends it.
Api_create(cluster, namespace, data, env) ==
    LET req == RawApi_create("services", namespace, data, env.build_ok)
    IN  IF req.tag # "Ok"
        THEN Outcome(Err(req.err), cluster, << >>, << >>)
        ELSE
        LET resp == client_request(cluster, req.val, env.accepts)
        IN  Outcome(resp.res, resp.cluster, <<req.val>>, <<resp.res>>)

\* Mutation of ServiceBuilder_do_request: a builder that produces no
\* Service is an error.
ServiceBuilder_do_request_strict(self, cluster, namespace, env) ==
    LET made == to_service(self)
    IN  IF made = None
        THEN Outcome(Err("NoService"), cluster, << >>, << >>)
        ELSE
        LET svc == made[1]
            data == serde_json_encode(svc, env.encode_ok)
        IN  IF env.info_enabled /\ data.tag # "Ok"
            THEN Outcome(Panic("unwrap on Err"), cluster, << >>, << >>)
            ELSE IF data.tag # "Ok"
            THEN Outcome(Err(data.err), cluster, << >>, << >>)
            ELSE
            LET created == Api_create(cluster, namespace, data.val, env)
            IN  IF created.result.tag # "Ok"
                THEN Outcome(Err(created.result.err), created.cluster,
                             created.sent, created.answers)
                ELSE Outcome(Ok(None), created.cluster,
                             created.sent, created.answers)

\* The Some arm first formats the Service for info!(): the macro evaluates
\* its arguments, and so the unwrap of to_string_pretty, only when the
\* logger emits level info.  Both encodings are of the same value and fail
\* together.  The None arm returns before any encoding or client call.
ServiceBuilder_do_request(self, cluster, namespace, env) ==
    LET made == to_service(self)
    IN  IF made = None
        THEN Outcome(Ok(None), cluster, << >>, << >>)
        ELSE
        LET svc == made[1]
            pretty == serde_json_encode(svc, env.encode_ok)
            data == serde_json_encode(svc, env.encode_ok)
        IN  IF env.info_enabled /\ pretty.tag # "Ok"
            THEN Outcome(Panic("unwrap on Err"), cluster, << >>, << >>)
            ELSE IF data.tag # "Ok"
            THEN Outcome(Err(data.err), cluster, << >>, << >>)
            ELSE
            LET created == Api_create(cluster, namespace, data.val, env)
            IN  IF created.result.tag # "Ok"
                THEN Outcome(Err(created.result.err), created.cluster,
                             created.sent, created.answers)
                ELSE Outcome(Ok(None), created.cluster,
                             created.sent, created.answers)

\* ------------------------------------------------------------ state
VARIABLES
    jb,         \* Option<JobBuilder>: the live Job builder
    sb,         \* Option<ServiceBuilder>: the live Service builder
    job,        \* Option<Job>: what to_job returned to the driver
    svc,        \* Option<Option<Service>>: what to_service returned
    cluster,    \* the resources the control plane holds
    last,       \* Option: what the pipeline's do_request did
    given,      \* Option: what the driver passed to the live or finalized builder
    pc,         \* the pipeline's position
    pipelines   \* builders constructed so far

vars == <<jb, sb, job, svc, cluster, last, given, pc, pipelines>>

\* The arguments the driver has passed so far: the constructor's, and the
\* last argument of each setter (None while the setter was never called).
Given(kind, instance_name, component) ==
    [kind |-> kind, instance_name |-> instance_name, component |-> component,
     labels |-> None, owner_ref |-> None, parallelism |-> None]

Init ==
    /\ jb = None
    /\ sb = None
    /\ job = None
    /\ svc = None
    /\ cluster = {}
    /\ last = None
    /\ given = None
    /\ pc = "idle"
    /\ pipelines = 0

\* ------------------------------------------------------------ Job pipeline
JobNew(instance_name, component) ==
    /\ pc # "building"
    /\ pipelines < MaxPipelines
    /\ jb' = Some(JobBuilder_new(instance_name, component))
    /\ sb' = None
    /\ job' = None
    /\ svc' = None
    /\ last' = None
    /\ given' = Some(Given("Job", instance_name, component))
    /\ pc' = "building"
    /\ pipelines' = pipelines + 1
    /\ UNCHANGED cluster

JobLabels(labels) ==
    /\ pc = "building" /\ jb # None
    /\ jb' = Some(JobBuilder_labels(jb[1], labels))
    /\ given' = Some([given[1] EXCEPT !.labels = Some(labels)])
    /\ UNCHANGED <<sb, job, svc, cluster, last, pc, pipelines>>

JobRestartPolicy(policy) ==
    /\ pc = "building" /\ jb # None
    /\ jb' = Some(JobBuilder_restart_policy(jb[1], policy))
    /\ UNCHANGED <<sb, job, svc, cluster, last, given, pc, pipelines>>

JobOwnerRef(owner) ==
    /\ pc = "building" /\ jb # None
    /\ jb' = Some(JobBuilder_owner_ref(jb[1], owner))
    /\ given' = Some([given[1] EXCEPT !.owner_ref = Some(owner)])
    /\ UNCHANGED <<sb, job, svc, cluster, last, pc, pipelines>>

JobParallelism(count) ==
    /\ pc = "building" /\ jb # None
    /\ jb' = Some(JobBuilder_parallelism(jb[1], count))
    /\ given' = Some([given[1] EXCEPT !.parallelism = Some(count)])
    /\ UNCHANGED <<sb, job, svc, cluster, last, pc, pipelines>>

ToJob ==
    /\ pc = "building" /\ jb # None
    /\ job' = Some(to_job(jb[1]))
    /\ jb' = None
    /\ pc' = "finalized"
    /\ UNCHANGED <<sb, svc, cluster, last, given, pipelines>>

\* The record of one do_request: its inputs, the cluster before it and its
\* outcome.
Submitted(kind, name, namespace, env, before, out) ==
    [kind |-> kind, name |-> name, namespace |-> namespace, env |-> env,
     before |-> before,
     result |-> out.result, sent |-> out.sent, answers |-> out.answers]

JobDoRequest(namespace, env) ==
    /\ pc = "building" /\ jb # None
    /\ LET out == JobBuilder_do_request(jb[1], cluster, namespace, env)
       IN  /\ cluster' = out.cluster
           /\ last' = Some(Submitted("Job", jb[1].name, namespace, env,
                                     cluster, out))
    /\ jb' = None
    /\ pc' = "submitted"
    /\ UNCHANGED <<sb, job, svc, given, pipelines>>

\* ------------------------------------------------------------ Service pipeline
ServiceNew(instance_name, component) ==
    /\ pc # "building"
    /\ pipelines < MaxPipelines
    /\ sb' = Some(ServiceBuilder_new(instance_name, component))
    /\ jb' = None
    /\ job' = None
    /\ svc' = None
    /\ last' = None
    /\ given' = Some(Given("Service", instance_name, component))
    /\ pc' = "building"
    /\ pipelines' = pipelines + 1
    /\ UNCHANGED cluster

ServiceLabels(labels) ==
    /\ pc = "building" /\ sb # None
    /\ sb' = Some(ServiceBuilder_labels(sb[1], labels))
    /\ given' = Some([given[1] EXCEPT !.labels = Some(labels)])
    /\ UNCHANGED <<jb, job, svc, cluster, last, pc, pipelines>>

ServiceOwnerReference(owner_ref) ==
    /\ pc = "building" /\ sb # None
    /\ sb' = Some(ServiceBuilder_owner_reference(sb[1], owner_ref))
    /\ given' = Some([given[1] EXCEPT !.owner_ref = Some(owner_ref)])
    /\ UNCHANGED <<jb, job, svc, cluster, last, pc, pipelines>>

ToService ==
    /\ pc = "building" /\ sb # None
    /\ svc' = Some(to_service(sb[1]))
    /\ sb' = None
    /\ pc' = "finalized"
    /\ UNCHANGED <<jb, job, cluster, last, given, pipelines>>

ServiceDoRequest(namespace, env) ==
    /\ pc = "building" /\ sb # None
    /\ LET out == ServiceBuilder_do_request(sb[1], cluster, namespace, env)
       IN  /\ cluster' = out.cluster
           /\ last' = Some(Submitted("Service", sb[1].name, namespace, env,
                                     cluster, out))
    /\ sb' = None
    /\ pc' = "submitted"
    /\ UNCHANGED <<jb, job, svc, given, pipelines>>

\* ------------------------------------------------------------ specifications
\* Building: the driver constructs builders, configures them with every
\* setter and finalizes them into resource values.
Next ==
    \/ \E n \in InstanceNames, c \in Components : JobNew(n, c)
    \/ \E l \in LabelMaps : JobLabels(l)
    \/ \E p \in RestartPolicies : JobRestartPolicy(p)
    \/ \E o \in OwnerArgs : JobOwnerRef(o)
    \/ \E k \in ParallelismValues : JobParallelism(k)
    \/ ToJob
    \/ \E n \in InstanceNames, c \in Components : ServiceNew(n, c)
    \/ \E l \in LabelMaps : ServiceLabels(l)
    \/ \E o \in OwnerArgs : ServiceOwnerReference(o)
    \/ ToService

Spec == Init /\ [][Next]_vars

\* Submitting: the driver constructs builders, labels them and submits them
\* to the control plane, one pipeline after the other against one cluster.
SubmitNext ==
    \/ \E n \in InstanceNames, c \in Components : JobNew(n, c)
    \/ \E l \in LabelMaps : JobLabels(l)
    \/ \E ns \in Namespaces, e \in Envs : JobDoRequest(ns, e)
    \/ \E n \in InstanceNames, c \in Components : ServiceNew(n, c)
    \/ \E l \in LabelMaps : ServiceLabels(l)
    \/ \E ns \in Namespaces, e \in Envs : ServiceDoRequest(ns, e)

SubmitSpec == Init /\ [][SubmitNext]_vars

\* ------------------------------------------------------------ properties
\* The pipeline's builder was finalized by to_job / to_service.
JobFinalized == pc = "finalized" /\ given # None /\ given[1].kind = "Job"
ServiceFinalized == pc = "finalized" /\ given # None /\ given[1].kind = "Service"

\* The pipeline's builder was submitted by do_request.
JobSubmitted == pc = "submitted" /\ last # None /\ last[1].kind = "Job"
ServiceSubmitted == pc = "submitted" /\ last # None /\ last[1].kind = "Service"

\* The argument of the last labels call, the empty map if there was none.
LastLabels == IF given[1].labels = None THEN EmptyLabels ELSE given[1].labels[1]

\* The ownership last set: absent if never set or last set to None.
LastOwner == IF given[1].owner_ref = None THEN None ELSE given[1].owner_ref[1]

\* The component of the pipeline declares a listening port.
DeclaresPort == listening_port(given[1].component) # None

\* C1: to_service returns a resource if and only if the component declares
\* a listening port, whatever labels and ownership were set before.
C1_ServiceIffPort ==
    ServiceFinalized => ((svc[1] # None) <=> DeclaresPort)

\* C1 witness: a builder whose labels and ownership were both set, of a
\* component without a port, was finalized into nothing.
C1_Witness ==
    /\ ServiceFinalized
    /\ ~DeclaresPort
    /\ svc[1] = None
    /\ given[1].labels # None /\ given[1].labels[1] # EmptyLabels
    /\ given[1].owner_ref # None /\ given[1].owner_ref[1] # None

\* C3: the finalized Job carries the ownership references last set, the same
\* sequence in its own metadata and in its pod template's metadata; both
\* are absent when ownership was never set or last set to None.
C3_OwnerDuplicated ==
    JobFinalized =>
        /\ job[1].metadata[1].owner_references = LastOwner
        /\ job[1].spec[1].template.metadata[1].owner_references = LastOwner

\* C3 witness: a Job finalized after ownership was set to two different
\* references.
C3_Witness ==
    /\ JobFinalized
    /\ LastOwner # None
    /\ Len(LastOwner[1]) = 2
    /\ LastOwner[1][1] # LastOwner[1][2]
    /\ job[1].spec[1].template.metadata[1].owner_references = LastOwner

\* C4: for a component declaring port P and labels L, to_service returns a
\* resource whose selector and metadata labels are exactly L and whose port
\* list is the one entry to_service_port(P).
C4_ServiceShape ==
    (ServiceFinalized /\ DeclaresPort) =>
        /\ svc[1] # None
        /\ svc[1][1].spec[1].selector = Some(LastLabels)
        /\ svc[1][1].metadata[1].labels = Some(LastLabels)
        /\ svc[1][1].spec[1].ports =
               Some(<<to_service_port(listening_port(given[1].component)[1])>>)

\* C4 witness: a Service of two labels was produced for a declared port.
C4_Witness ==
    /\ ServiceFinalized
    /\ DeclaresPort
    /\ svc[1] # None
    /\ DOMAIN LastLabels = LabelKeys
    /\ Len(svc[1][1].spec[1].ports[1]) = 1

\* C6: the finalized Job's parallelism is absent when the setter was never
\* called, and otherwise the argument of its last call, unchanged, be it
\* zero or negative.
C6_Parallelism ==
    JobFinalized =>
        job[1].spec[1].parallelism =
            (IF given[1].parallelism = None
             THEN None
             ELSE Some(given[1].parallelism[1]))

\* C6 witness: a Job finalized after parallelism was last set to a negative
\* count.
C6_Witness ==
    /\ JobFinalized
    /\ given[1].parallelism # None
    /\ given[1].parallelism[1] < 0
    /\ job[1].spec[1].parallelism = Some(given[1].parallelism[1])

\* C7: the instance name given at construction is the name of the finalized
\* Job, of its pod template, and of the Service when one is produced.
C7_NameVerbatim ==
    /\ JobFinalized =>
           /\ job[1].metadata[1].name = Some(given[1].instance_name)
           /\ job[1].spec[1].template.metadata[1].name = Some(given[1].instance_name)
    /\ (ServiceFinalized /\ svc[1] # None) =>
           svc[1][1].metadata[1].name = Some(given[1].instance_name)

\* C7 witness: a Job finalized after labels, ownership and parallelism were
\* set carries the instance name in its pod template.
C7_Witness ==
    /\ JobFinalized
    /\ given[1].labels # None
    /\ given[1].owner_ref # None
    /\ given[1].parallelism # None
    /\ job[1].spec[1].template.metadata[1].name = Some(given[1].instance_name)

\* C8: the finalized Job's backoff limit is 4 after any sequence of setter
\* calls.
C8_BackoffLimit ==
    JobFinalized => job[1].spec[1].backoff_limit = Some(4)

\* C8 witness: a Job finalized with a restart policy other than the default
\* and with parallelism set.
C8_Witness ==
    /\ JobFinalized
    /\ job[1].spec[1].template.spec[1].restart_policy = Some("OnFailure")
    /\ job[1].spec[1].parallelism # None
    /\ job[1].spec[1].backoff_limit # None

\* C9: the finalized Job's metadata labels and pod-template labels are
\* exactly the argument of the last labels call, the empty map if there was
\* none: nothing of an earlier call survives, no other setter changes them.
C9_LabelsReplaced ==
    JobFinalized =>
        /\ job[1].metadata[1].labels = Some(LastLabels)
        /\ job[1].spec[1].template.metadata[1].labels = Some(LastLabels)

\* C9 witness: a Job finalized after labels was last called with a map of
\* the one key "tier".
C9_Witness ==
    /\ JobFinalized
    /\ given[1].labels # None
    /\ DOMAIN LastLabels = {"tier"}
    /\ job[1].metadata[1].labels = Some(LastLabels)

\* The pipeline's do_request had a resource to submit: every Job, and the
\* Service of a component that declares a port.
ResourceSubmitted == JobSubmitted \/ (ServiceSubmitted /\ DeclaresPort)

\* The identity of the resource the pipeline's do_request is to create.
SubmittedId ==
    [resource |-> IF last[1].kind = "Job" THEN "jobs" ELSE "services",
     namespace |-> last[1].namespace,
     name |-> last[1].name]

\* The control plane's answer as do_request is to return it.
Propagated(answer) ==
    IF answer.tag = "Ok" THEN Ok(None) ELSE Err(answer.err)

\* One create request for the pipeline's resource in the given namespace
\* was issued and its outcome returned: success and the resource stored
\* when the control plane accepted, its failure and the cluster as before
\* otherwise, as when the name already existed in the namespace.
OneRequestPropagated ==
    /\ Len(last[1].sent) = 1
    /\ last[1].sent[1].method = "POST"
    /\ ResourceId(last[1].sent[1]) = SubmittedId
    /\ last[1].result = Propagated(last[1].answers[1])
    /\ (last[1].result.tag = "Ok") <=>
           (last[1].env.accepts /\ SubmittedId \notin last[1].before)
    /\ IF last[1].result.tag = "Ok"
       THEN cluster = last[1].before \cup {SubmittedId}
       ELSE cluster = last[1].before

\* C2: submitting the ServiceBuilder of a component without a listening
\* port returns success, issues no create request and leaves the cluster
\* as it was, whatever the control plane would have answered.
C2_NoPortNoOp ==
    (ServiceSubmitted /\ ~DeclaresPort) =>
        /\ last[1].result = Ok(None)
        /\ last[1].sent = << >>
        /\ cluster = last[1].before

\* C2 witness: such a submit succeeded although the control plane would
\* have rejected a request, with a resource already in the cluster.
C2_Witness ==
    /\ ServiceSubmitted
    /\ ~DeclaresPort
    /\ ~last[1].env.accepts
    /\ cluster # {}
    /\ last[1].result.tag = "Ok"

\* C5 as stated: every submit that has a resource issues exactly one create
\* request in the given namespace and returns that request's outcome.
C5_EverySubmitOneRequest ==
    ResourceSubmitted => OneRequestPropagated

\* C5 amended: every submit whose resource was encoded and whose create
\* request was constructed issues exactly one create request in the given
\* namespace and returns that request's outcome, without retry and without
\* swallowing; a second submit of a name the namespace already holds fails
\* and leaves the one resource.
C5_EncodedSubmitOneRequest ==
    (ResourceSubmitted /\ last[1].env.encode_ok /\ last[1].env.build_ok) =>
        OneRequestPropagated

\* C5 witness: a Job was submitted under a name its namespace already held;
\* the one request failed with the conflict and the cluster kept the one
\* resource.
C5_Witness ==
    /\ JobSubmitted
    /\ SubmittedId \in last[1].before
    /\ Len(last[1].sent) = 1
    /\ last[1].result = Err("AlreadyExists")
    /\ cluster = last[1].before

\* C10: when encoding the produced resource fails, do_request returns a
\* failure to its caller and issues no create request.
C10_EncodeFailureReturned ==
    (ResourceSubmitted /\ ~last[1].env.encode_ok) =>
        /\ last[1].result.tag = "Err"
        /\ last[1].sent = << >>

=============================================================================
